---- MODULE Spec2Model ----
(***************************************************************************)
(* A model of jcblock.py: the junk-call blocker that screens Caller-ID     *)
(* lines of an AT modem against an allow list and a block list.            *)
(*                                                                         *)
(* Text is modelled as a sequence of characters, each character a          *)
(* one-element string: the line "DATE=0102" is                             *)
(* <<"D","A","T","E","=","0","1","0","2">>.  A fixed text that no code     *)
(* path looks into (a note, a log outcome, an AT command) is one element.  *)
(* A file is a record [exists, lines]; every line of a file is terminated  *)
(* by a newline, which is left out of the line's text.                     *)
(***************************************************************************)
EXTENDS Integers, Sequences, FiniteSets, TLC

----------------------------------------------------------------------------
(* Characters *)

Uppers == <<"A","B","C","D","E","F","G","H","I","J","K","L","M",
            "N","O","P","Q","R","S","T","U","V","W","X","Y","Z">>

Lowers == <<"a","b","c","d","e","f","g","h","i","j","k","l","m",
            "n","o","p","q","r","s","t","u","v","w","x","y","z">>

DigitChars == <<"0","1","2","3","4","5","6","7","8","9">>

Range(s) == {s[i] : i \in DOMAIN s}

IsDigit(c) == c \in Range(DigitChars)

DigitVal(c) == (CHOOSE i \in DOMAIN DigitChars : DigitChars[i] = c) - 1

\* str.lower() of one character, as re.IGNORECASE folds it
Lower(c) ==
    IF c \in Range(Uppers)
    THEN Lowers[CHOOSE i \in DOMAIN Uppers : Uppers[i] = c]
    ELSE c

\* \w of the re module
IsWord(c) == c \in Range(Uppers) \cup Range(Lowers) \cup Range(DigitChars) \cup {"_"}

\* \s of the re module (the only white space the modelled lines hold)
IsSpace(c) == c = " "

----------------------------------------------------------------------------
(* str operations *)

\* str.startswith
StartsWith(s, p) == Len(s) >= Len(p) /\ SubSeq(s, 1, Len(p)) = p

\* str.endswith
EndsWith(s, p) == Len(s) >= Len(p) /\ SubSeq(s, Len(s) - Len(p) + 1, Len(s)) = p

\* the text after the first i characters
Drop(s, i) == SubSeq(s, i + 1, Len(s))

\* position of the first sep in s at or after i, or 0
RECURSIVE Find(_, _, _)
Find(s, sep, i) ==
    IF i > Len(s) THEN 0
    ELSE IF s[i] = sep THEN i
    ELSE Find(s, sep, i + 1)

\* str.split(sep, max): max < 0 splits at every sep
RECURSIVE SplitMax(_, _, _)
SplitMax(s, sep, max) ==
    LET k == Find(s, sep, 1) IN
    IF k = 0 \/ max = 0 THEN <<s>>
    ELSE <<SubSeq(s, 1, k - 1)>> \o SplitMax(Drop(s, k), sep, max - 1)

Split(s, sep) == SplitMax(s, sep, -1)

\* sep.join(parts)
RECURSIVE Join(_, _)
Join(parts, sep) ==
    IF parts = <<>> THEN <<>>
    ELSE IF Len(parts) = 1 THEN parts[1]
    ELSE parts[1] \o <<sep>> \o Join(Tail(parts), sep)

\* whether p occurs in s as a contiguous run (the bytes/str operator "in")
Contains(s, p) ==
    \E i \in 0..(Len(s) - Len(p)) : SubSeq(s, i + 1, i + Len(p)) = p

\* s.replace(p, b'') for a non-empty p: leftmost occurrences, not overlapping
RECURSIVE Remove(_, _)
Remove(s, p) ==
    IF Len(s) < Len(p) THEN s
    ELSE IF SubSeq(s, 1, Len(p)) = p THEN Remove(Drop(s, Len(p)), p)
    ELSE <<s[1]>> \o Remove(Tail(s), p)

\* str(n) for n >= 0
RECURSIVE Str(_)
Str(n) ==
    IF n < 10 THEN <<DigitChars[n + 1]>>
    ELSE Str(n \div 10) \o <<DigitChars[(n % 10) + 1]>>

\* whether int(s) succeeds: a non-empty run of digits (signs and blanks, which
\* int also accepts, do not occur in the modelled files)
IsInt(s) == s # <<>> /\ \A i \in DOMAIN s : IsDigit(s[i])

\* int(s) for such an s
RECURSIVE ParseInt(_)
ParseInt(s) ==
    IF s = <<>> THEN 0
    ELSE 10 * ParseInt(SubSeq(s, 1, Len(s) - 1)) + DigitVal(s[Len(s)])

\* number of leading characters of s, from position i on, that satisfy \w
RECURSIVE WordRun(_, _)
WordRun(s, i) == IF i <= Len(s) /\ IsWord(s[i]) THEN 1 + WordRun(s, i + 1) ELSE 0

\* number of characters of s, from position i on, that satisfy \s
RECURSIVE SpaceRun(_, _)
SpaceRun(s, i) == IF i <= Len(s) /\ IsSpace(s[i]) THEN 1 + SpaceRun(s, i + 1) ELSE 0

\* re.sub('^\w+\s*=\s*', '', line): the value of a KEY=value line
StripKey(line) ==
    LET w  == WordRun(line, 1)
        s1 == SpaceRun(line, w + 1)
        eq == w + s1 + 1
    IN  IF w >= 1 /\ eq <= Len(line) /\ line[eq] = "="
        THEN Drop(line, eq + SpaceRun(line, eq + 1))
        ELSE line

\* s + " " + (" " * (count-len(s)-1))
RECURSIVE Spaces(_)
Spaces(n) == IF n <= 0 THEN <<>> ELSE <<" ">> \o Spaces(n - 1)

space_fill(s, count) == s \o <<" ">> \o Spaces(count - Len(s) - 1)

\* s[a:b] of Python: clipped to the text's length
Slice(s, a, b) == SubSeq(s, a + 1, IF b < Len(s) THEN b ELSE Len(s))

----------------------------------------------------------------------------
(* Regular expressions.  The modelled patterns are those of this subset of *)
(* the re syntax: a literal character, "." (any character), "^" (start of  *)
(* the text), a backslash escaping the punctuation character after it, and *)
(* a parenthesis, which no modelled pattern closes.                        *)

\* whether re.compile(p, re.IGNORECASE) succeeds, scanning from position i:
\* it raises re.error on an unbalanced parenthesis and on a backslash that
\* ends the pattern
RECURSIVE CompilesFrom(_, _)
CompilesFrom(p, i) ==
    IF i > Len(p) THEN TRUE
    ELSE IF p[i] = "\\" THEN i < Len(p) /\ CompilesFrom(p, i + 2)
    ELSE IF p[i] \in {"(", ")"} THEN FALSE
    ELSE CompilesFrom(p, i + 1)

ReCompiles(p) == CompilesFrom(p, 1)

\* whether pattern p from position i matches text s from position j on
RECURSIVE MatchAt(_, _, _, _)
MatchAt(p, i, s, j) ==
    IF i > Len(p) THEN TRUE
    ELSE IF p[i] = "^" THEN j = 1 /\ MatchAt(p, i + 1, s, j)
    ELSE IF j > Len(s) THEN FALSE
    ELSE IF p[i] = "." THEN MatchAt(p, i + 1, s, j + 1)
    ELSE IF p[i] = "\\" THEN s[j] = p[i + 1] /\ MatchAt(p, i + 2, s, j + 1)
    ELSE Lower(s[j]) = Lower(p[i]) /\ MatchAt(p, i + 1, s, j + 1)

\* item['regex'].match(string): the compiled pattern matches at the start of
\* the string, ignoring case, and need not consume all of it
ReMatch(p, s) == MatchAt(p, 1, s, 1)

----------------------------------------------------------------------------
(* Time.  A broken-down time is [year, mon, day, hour, min]; time.time() is *)
(* its number of seconds since 1970, the local zone taken to be UTC.        *)

IsLeap(y) == (y % 4 = 0 /\ y % 100 # 0) \/ y % 400 = 0

DaysInMonth(y, m) ==
    IF m = 2 THEN (IF IsLeap(y) THEN 29 ELSE 28)
    ELSE IF m \in {4, 6, 9, 11} THEN 30 ELSE 31

RECURSIVE DaysBeforeMonth(_, _)
DaysBeforeMonth(y, m) ==
    IF m <= 1 THEN 0 ELSE DaysBeforeMonth(y, m - 1) + DaysInMonth(y, m - 1)

\* days from 1970-01-01 to the first day of year y
DaysBeforeYear(y) ==
    365 * (y - 1970)
    + ((y - 1) \div 4 - (y - 1) \div 100 + (y - 1) \div 400)
    - (1969 \div 4 - 1969 \div 100 + 1969 \div 400)

day_secs == 24 * 60 * 60

\* time.mktime of a broken-down time
Mktime(t) ==
    (DaysBeforeYear(t.year) + DaysBeforeMonth(t.year, t.mon) + (t.day - 1)) * day_secs
    + t.hour * 3600 + t.min * 60

\* n as two decimal digits
Digits2(n) == <<DigitChars[(n \div 10) + 1], DigitChars[(n % 10) + 1]>>

\* time.strftime('%Y')
StrfYear(t) == Digits2(t.year \div 100) \o Digits2(t.year % 100)

\* time.strftime("%Y-%m-%d %H:%M")
Strftime(t) ==
    StrfYear(t) \o <<"-">> \o Digits2(t.mon) \o <<"-">> \o Digits2(t.day)
    \o <<" ">> \o Digits2(t.hour) \o <<":">> \o Digits2(t.min)

\* the fields time.strptime(ts, "%Y-%m-%d %H:%M") reads from a text of the
\* canonical shape
StrptimeFields(ts) ==
    [year |-> ParseInt(SubSeq(ts, 1, 4)), mon |-> ParseInt(SubSeq(ts, 6, 7)),
     day |-> ParseInt(SubSeq(ts, 9, 10)), hour |-> ParseInt(SubSeq(ts, 12, 13)),
     min |-> ParseInt(SubSeq(ts, 15, 16))]

\* whether time.strptime(ts, "%Y-%m-%d %H:%M") succeeds (else ValueError).
\* The texts of the model are either of the canonical 16-character shape
\* or lack digits where the format needs one; the one-digit fields strptime
\* also accepts do not occur.
StrptimeOk(ts) ==
    /\ Len(ts) = 16
    /\ \A i \in {1, 2, 3, 4, 6, 7, 9, 10, 12, 13, 15, 16} : IsDigit(ts[i])
    /\ ts[5] = "-" /\ ts[8] = "-" /\ ts[11] = " " /\ ts[14] = ":"
    /\ LET t == StrptimeFields(ts) IN
         /\ t.mon \in 1..12
         /\ t.day \in 1..DaysInMonth(t.year, t.mon)
         /\ t.hour \in 0..23
         /\ t.min \in 0..59

\* the call's timestamp: strftime('%Y') + "-" + call_date[0:2] + "-" +
\* call_date[2:4] + " " + call_time[0:2] + ":" + call_time[2:4]
Timestamp(t, date, time) ==
    StrfYear(t) \o <<"-">> \o Slice(date, 0, 2) \o <<"-">> \o Slice(date, 2, 4)
    \o <<" ">> \o Slice(time, 0, 2) \o <<":">> \o Slice(time, 2, 4)

----------------------------------------------------------------------------
(* The allow and block lists.  A list is the dict of read_list in its      *)
(* insertion order: a sequence of items [regex, permanent, timestamp,      *)
(* count] with distinct regex texts.  item['regex'], the compiled pattern, *)
(* is a function of the key, and item['note'] is only ever printed: both   *)
(* are left out.                                                           *)

NoFile == [exists |-> FALSE, lines |-> <<>>]

File(ls) == [exists |-> TRUE, lines |-> ls]

\* regex in list
InList(list, regex) == \E i \in DOMAIN list : list[i].regex = regex

\* list[regex]
Item(list, regex) == list[CHOOSE i \in DOMAIN list : list[i].regex = regex]

\* list[regex] = item: a present key keeps its place, a new key goes last
Put(list, item) ==
    IF InList(list, item.regex)
    THEN [i \in DOMAIN list |-> IF list[i].regex = item.regex THEN item ELSE list[i]]
    ELSE Append(list, item)

\* del list[regex]
Del(list, regex) == SelectSeq(list, LAMBDA it : it.regex # regex)

\* a faulty reading, which takes the first field for the pattern
NoRejoin(regex, line_list) == [regex |-> regex, rest |-> line_list]

\* regex may have a "\;" embedded in it: while the text ends in a backslash
\* and fields are left, the backslash is dropped and ";" and the next field
\* are joined on
RECURSIVE Rejoin(_, _)
Rejoin(regex, line_list) ==
    IF regex # <<>> /\ EndsWith(regex, <<"\\">>) /\ line_list # <<>>
    THEN Rejoin(SubSeq(regex, 1, Len(regex) - 1) \o <<";">> \o Head(line_list),
                Tail(line_list))
    ELSE [regex |-> regex, rest |-> line_list]

\* 'p' in flags or 'P' in flags
IsPermanent(flags) == \E i \in DOMAIN flags : flags[i] \in {"p", "P"}

\* one pass of the loop of read_list over the list file
ReadDatLine(list, line, now) ==
    IF StartsWith(line, <<"#">>) THEN list
    ELSE LET line_list == Split(line, ";")
             first == Head(line_list)
         IN  IF first = <<>> THEN list
             ELSE LET rj == Rejoin(first, Tail(line_list))
                      flags == IF rj.rest # <<>> THEN Head(rj.rest) ELSE <<>>
                  IN  IF ~ReCompiles(rj.regex) THEN list
                      ELSE Put(list, [regex |-> rj.regex,
                                      permanent |-> IsPermanent(flags),
                                      timestamp |-> now,
                                      count |-> 0])

RECURSIVE ReadDat(_, _, _)
ReadDat(list, lines, now) ==
    IF lines = <<>> THEN list
    ELSE ReadDat(ReadDatLine(list, Head(lines), now), Tail(lines), now)

\* one pass of the loop of read_list over the match history file; err is the
\* ValueError of int(count), which nothing catches
ReadMatchLine(r, line) ==
    LET line_list == SplitMax(line, ";", 3) IN
    IF r.err \/ Len(line_list) # 3 THEN r
    ELSE LET timestamp == line_list[1]
             count == line_list[2]
             regex == line_list[3]
         IN  IF ~InList(r.list, regex) THEN r
             ELSE IF ~IsInt(count) THEN [r EXCEPT !.err = TRUE]
             ELSE [r EXCEPT !.list = Put(r.list,
                       [Item(r.list, regex) EXCEPT !.timestamp = timestamp,
                                                   !.count = ParseInt(count)])]

RECURSIVE ReadMatch(_, _)
ReadMatch(r, lines) ==
    IF lines = <<>> THEN r
    ELSE ReadMatch(ReadMatchLine(r, Head(lines)), Tail(lines))

\* read_list(list_file): dat and match are the list file and its -match
\* file, now is time.strftime("%Y-%m-%d %H:%M").  [err, list]
read_list(dat, match, now) ==
    IF ~dat.exists THEN [err |-> FALSE, list |-> <<>>]
    ELSE LET list == ReadDat(<<>>, dat.lines, now) IN
         IF ~match.exists THEN [err |-> FALSE, list |-> list]
         ELSE ReadMatch([err |-> FALSE, list |-> list], match.lines)

\* the line update_list_match writes for an item
MatchLine(item) == item.timestamp \o <<";">> \o Str(item.count) \o <<";">> \o item.regex

\* update_list_match(list, list_file): the -match file it leaves
update_list_match(list) == File([i \in DOMAIN list |-> MatchLine(list[i])])

\* a faulty match, which counts every item whose pattern matches
match_list_all(list, string, timestamp) ==
    [hit |-> \E i \in DOMAIN list : ReMatch(list[i].regex, string),
     list |-> [i \in DOMAIN list |->
                 IF ReMatch(list[i].regex, string)
                 THEN [list[i] EXCEPT !.timestamp = timestamp, !.count = @ + 1]
                 ELSE list[i]]]

\* match_list(list, string, timestamp): the first item in dict order whose
\* pattern matches gets the timestamp and one more count.  [hit, list]
match_list(list, string, timestamp) ==
    IF \E i \in DOMAIN list : ReMatch(list[i].regex, string)
    THEN LET k == CHOOSE i \in DOMAIN list :
                    /\ ReMatch(list[i].regex, string)
                    /\ \A j \in 1..(i - 1) : ~ReMatch(list[j].regex, string)
         IN  [hit |-> TRUE,
              list |-> [list EXCEPT ![k].timestamp = timestamp,
                                    ![k].count = list[k].count + 1]]
    ELSE [hit |-> FALSE, list |-> list]

\* a faulty match_list_both, which looks at the number only
match_list_number(list, number, name, timestamp) ==
    match_list(list, number, timestamp)

\* match_list_both(list, list_type, number, name, timestamp)
match_list_both(list, number, name, timestamp) ==
    LET byNumber == match_list(list, number, timestamp) IN
    IF byNumber.hit THEN byNumber ELSE match_list(list, name, timestamp)

----------------------------------------------------------------------------
(* purge_list *)

blocklist_purge_days == 1

blocklist_lifetime_days == 9 * 30

\* "# last blocked on " + timestamp + " count " + str(count) + " #" + line
CommentedOut(item, line) ==
    <<"#", " last blocked on ">> \o item.timestamp \o <<" count ">>
    \o Str(item.count) \o <<" ", "#">> \o line

\* a faulty test, which also purges the item whose lifetime ends now
OverdueAtLifetime(item, last_time, now, lifetime_days) ==
    ~item.permanent /\ now - last_time >= lifetime_days * day_secs

\* a faulty purge, which always rewrites the file
purge_always(file_changed) == "purge_remove"

\* not item['permanent'] and now-last_time > lifetime_days * day_secs
Overdue(item, last_time, now, lifetime_days) ==
    ~item.permanent /\ now - last_time > lifetime_days * day_secs

\* one pass of the loop of purge_list over the list file; p is [list,
\* new_contents, file_changed, err], now is time.time(); err is the
\* ValueError of time.strptime, which nothing catches
PurgeLine(p, line, now, lifetime_days) ==
    IF p.err THEN p
    ELSE IF StartsWith(line, <<"#">>)
    THEN [p EXCEPT !.new_contents = Append(@, line)]
    ELSE LET line_list == Split(line, ";")
             regex == Rejoin(Head(line_list), Tail(line_list)).regex
         IN  IF ~InList(p.list, regex)
             THEN [p EXCEPT !.new_contents = Append(@, line)]
             ELSE LET item == Item(p.list, regex) IN
                  IF ~StrptimeOk(item.timestamp) THEN [p EXCEPT !.err = TRUE]
                  ELSE LET last_time == Mktime(StrptimeFields(item.timestamp)) IN
                       IF Overdue(item, last_time, now, lifetime_days)
                       THEN [p EXCEPT !.list = Del(@, regex),
                                      !.new_contents = Append(@, CommentedOut(item, line)),
                                      !.file_changed = TRUE]
                       ELSE [p EXCEPT !.new_contents = Append(@, line)]

RECURSIVE PurgeLines(_, _, _, _)
PurgeLines(p, lines, now, lifetime_days) ==
    IF lines = <<>> THEN p
    ELSE PurgeLines(PurgeLine(p, Head(lines), now, lifetime_days),
                    Tail(lines), now, lifetime_days)

\* the scan of purge_list(list, list_file, lifetime_days) over an existing
\* list file
PurgeScan(list, dat, now, lifetime_days) ==
    PurgeLines([list |-> list, new_contents |-> <<>>, file_changed |-> FALSE,
                err |-> FALSE],
               dat.lines, now, lifetime_days)

----------------------------------------------------------------------------
(* Modem.wait_for_star and Modem.terminate_call.  The monotonic clock      *)
(* counts ticks, TicksPerSec to the second.  A read(1) under timeout 1.0   *)
(* is an event [byte, dt]: it returns after dt ticks, dt at most the       *)
(* timeout, with the one byte that arrived or with nothing.                *)

TicksPerSec == 2

StarSecs == 10

TimeoutSecs == 1

StarWindow == StarSecs * TicksPerSec

ReadTimeout == TimeoutSecs * TicksPerSec

DLE == "\\x10"

\* <DLE>/<DLE>*<DLE>~ - DTMF *
star_bytes == <<DLE, "/", DLE, "*", DLE, "~">>

\* <DLE>R - ring voltage
ring_bytes1 == <<DLE, "R">>

\* <DLE>r - ring tone
ring_bytes2 == <<DLE, "r">>

\* the state of wait_for_star on entering its loop at monotonic time t
StarInit(t) ==
    [read_bytes |-> <<>>, now |-> t, last_ring |-> t, read_at |-> t,
     sent |-> <<"AT+FCLASS=8", "AT+VIP", "AT+VLS=4">>]

\* the condition of the while loop
StarGuard(w) ==
    w.now - w.last_ring < StarWindow /\ ~Contains(w.read_bytes, star_bytes)

\* a faulty pass, in which a ring is stripped and the window not restarted
StarStepNoRestart(w, ev) ==
    LET got == w.read_bytes \o ev.byte
        nl  == Contains(got, <<"\n">>)
        buf == IF nl THEN <<>> ELSE got
    IN  [read_bytes |-> Remove(Remove(buf, ring_bytes1), ring_bytes2),
         now        |-> w.now + ev.dt,
         last_ring  |-> w.last_ring,
         read_at    |-> w.now,
         sent       |-> IF nl THEN w.sent \o <<"AT+VIP", "AT+VLS=4">> ELSE w.sent]

\* one pass of the while loop, the read returning ev; read_at records when
\* the read was issued
StarStep(w, ev) ==
    LET now1 == w.now + ev.dt
        got  == w.read_bytes \o ev.byte
        nl   == Contains(got, <<"\n">>)
        buf  == IF nl THEN <<>> ELSE got
        ring == Contains(buf, ring_bytes1) \/ Contains(buf, ring_bytes2)
    IN  [read_bytes |-> IF ring THEN Remove(Remove(buf, ring_bytes1), ring_bytes2)
                        ELSE buf,
         now        |-> now1,
         last_ring  |-> IF ring THEN now1 ELSE w.last_ring,
         read_at    |-> w.now,
         sent       |-> IF nl THEN w.sent \o <<"AT+VIP", "AT+VLS=4">> ELSE w.sent]

\* a read that times out
TimeoutEv == [byte |-> <<>>, dt |-> ReadTimeout]

\* the loop run over the events of a call; once they are used up the line is
\* silent and every read times out
RECURSIVE StarRun(_, _)
StarRun(w, events) ==
    IF ~StarGuard(w) THEN w
    ELSE IF events = <<>> THEN StarRun(StarStep(w, TimeoutEv), <<>>)
    ELSE StarRun(StarStep(w, Head(events)), Tail(events))

\* wait_for_star(): [star, sent], the value returned and the commands sent
wait_for_star(events) ==
    LET w == StarRun(StarInit(0), events) IN
    [star |-> Contains(w.read_bytes, star_bytes), sent |-> Append(w.sent, "ATH")]

\* the commands terminate_call() sends
terminate_call == <<"AT+FCLASS=1", "ATA", "ATH", "ATH">>

----------------------------------------------------------------------------
(* The program's state *)

VARIABLES
    pc,                    \* where main() is: "top" is the head of its loop
    line,                  \* the modem line read last
    call_date, call_time, call_number, call_name,
    timestamp,             \* the timestamp of the record being screened
    match,                 \* the outcome of the record being screened
    reload_config,         \* set by sighup_handler
    allowlist, blocklist,  \* the lists in memory
    blocklist_purge_time,  \* time.time() of the last purge
    new_contents,          \* purge_list: the text to write
    allow_dat, allow_match, block_dat, block_match, block_backup, calllog,
    clock,                 \* the wall clock: an index into Instants
    sent,                  \* the commands the screening of the record sent
    modem_lines,           \* the lines the modem may deliver
    star_events,           \* what the modem may deliver to wait_for_star
    w,                     \* wait_for_star: the state of its loop
    script,                \* wait_for_star: the bytes the modem has yet to send
    star_ret,              \* wait_for_star: the value returned
    fresh,                 \* history: the fields captured since the last hand-off
    seen,                  \* history: what the screening of the record found
    nread,                 \* history: the number of modem lines read
    purged,                \* history: the files as the last purge found them
    handed,                \* history: the number of records handed to screening
    owed,                  \* history: the reloads that signals have asked for
    heard,                 \* history: when wait_for_star saw a ring, the star
    ringing,               \* the telephone line: the call on it, its lines
    origin                 \* history: the calls of the last DATE, the last line

vars == <<pc, line, call_date, call_time, call_number, call_name, timestamp,
          match, reload_config, allowlist, blocklist, blocklist_purge_time,
          new_contents, allow_dat, allow_match, block_dat, block_match,
          block_backup, calllog, clock, sent, modem_lines, star_events, w,
          script, star_ret, fresh, seen, nread, purged, handed, owed, heard,
          ringing, origin>>

fieldVars == <<call_date, call_time, call_number, call_name>>

listVars == <<allowlist, blocklist>>

fileVars == <<allow_dat, allow_match, block_dat, block_match, block_backup, calllog>>

envVars == <<modem_lines, star_events, ringing, origin>>

starVars == <<w, script, star_ret, heard>>

pastVars == <<fresh, seen, nread, purged, handed>>

histVars == <<pastVars, owed>>

----------------------------------------------------------------------------
(* The environment *)

\* the modem lines read in one run
MaxLines == 5

\* the wall-clock times of a run: the start, and one more than the block
\* list's lifetime later
Instants ==
    << [year |-> 2026, mon |-> 1, day |-> 2, hour |-> 10, min |-> 31],
       [year |-> 2026, mon |-> 12, day |-> 1, hour |-> 9, min |-> 0] >>

\* time.time()
Time(c) == Mktime(Instants[c])

\* time.strftime("%Y-%m-%d %H:%M")
NowText(c) == Strftime(Instants[c])

RING == <<"R","I","N","G">>

DATE(v) == <<"D","A","T","E","=">> \o v

TIME(v) == <<"T","I","M","E","=">> \o v

NMBR(v) == <<"N","M","B","R","=">> \o v

NAME(v) == <<"N","A","M","E","=">> \o v

\* the Caller-ID lines of the modem, and a line that is none of them.  A
\* caller whose number or name is withheld is one whose NMBR or NAME line
\* never comes: the field is the empty string then
CallerIdLines ==
    { RING, DATE(<<"0","1","0","2">>), TIME(<<"1","0","3","0">>),
      NMBR(<<"1">>), NMBR(<<"2">>), NMBR(<<"(">>), NAME(<<"B">>), <<"O","K">> }

Timed(bytes, dt) == [i \in DOMAIN bytes |-> [byte |-> <<bytes[i]>>, dt |-> dt]]

\* what the modem delivers while wait_for_star listens: silence, the star
\* key, a ring and then the star key
StarEvents ==
    { <<>>, Timed(star_bytes, 0), Timed(ring_bytes1 \o star_bytes, 1) }

\* the list files at the start
AllowDat == File(<< <<"b", ";", "p", ";", "friend">> >>)

BlockDat == File(<< <<"^", "1", ";", ";", "spam">> >>)

----------------------------------------------------------------------------
(* main() *)

NoneFresh == [date |-> FALSE, time |-> FALSE, number |-> FALSE, name |-> FALSE]

NotSeen == [allow |-> FALSE, block |-> FALSE, star |-> FALSE, added |-> FALSE]

\* no reload is asked for.  owed counts the lines read since the oldest
\* signal not answered yet, -1 if there is none.  A signal is answered by
\* the end of a reload that began after it and that leaves the flag clear:
\* both lists have then been read by loads that started after the signal.
\* (A signal that arrives during a reload may have been answered in full
\* by it, if it came before the first load: it counts as not answered.)
NotOwed == -1

NotHeard == [ring |-> 0, star |-> -1]

NotPurged ==
    [active |-> FALSE, removed |-> FALSE, list |-> <<>>, dat |-> NoFile,
     backup |-> NoFile]

\* no call is in hand: the variables of the accumulation and the screening
NoCall ==
    /\ line = <<>>
    /\ call_date = <<>> /\ call_time = <<>> /\ call_number = <<>> /\ call_name = <<>>
    /\ timestamp = <<>>
    /\ match = "no match"
    /\ sent = <<>>
    /\ calllog = NoFile
    /\ fresh = NoneFresh
    /\ seen = NotSeen
    /\ nread = 0
    /\ handed = 0
    /\ owed = NotOwed

\* the telephone line is idle, and no call has been seen on it
NoCaller == [call |-> 0, on |-> FALSE, at |-> 0, nmbr |-> <<>>, named |-> FALSE]

\* no line has been read from a call
NoOrigin == [date |-> 0, line |-> 0]

\* what the modem may deliver
Environment ==
    /\ modem_lines = CallerIdLines
    /\ star_events = StarEvents
    /\ ringing = NoCaller
    /\ origin = NoOrigin

\* wait_for_star is not running
NoStar ==
    /\ w = StarInit(0) /\ script = <<>> /\ star_ret = FALSE
    /\ heard = NotHeard

\* purge_list is not running
NoPurge ==
    /\ new_contents = <<>>
    /\ purged = NotPurged

\* the state on entering the loop: both lists read, their match files written
Init ==
    /\ pc = "top"
    /\ NoCall /\ Environment /\ NoStar /\ NoPurge
    /\ reload_config = FALSE
    /\ clock = 1
    /\ allow_dat = AllowDat
    /\ block_dat = BlockDat
    /\ allowlist = read_list(allow_dat, NoFile, NowText(clock)).list
    /\ blocklist = read_list(block_dat, NoFile, NowText(clock)).list
    /\ allow_match = update_list_match(allowlist)
    /\ block_match = update_list_match(blocklist)
    /\ block_backup = NoFile
    /\ blocklist_purge_time = 0

\* where main() can be when a signal arrives
MainPcs ==
    {"top", "purge_remove", "purge_rename", "purge_open", "purge_write", "read",
     "sighup", "clear", "reload_allow", "reload_block", "accum", "screen", "log"}

\* a faulty handler, which leaves the flag as it is
sighup_ignored(flag) == flag

\* sighup_handler: the value it gives reload_config
sighup_handler(flag) == TRUE

\* history: a signal arrives
Ask(o) == IF o = NotOwed THEN 0 ELSE o

\* history: a line is read
Wait(o) == IF o = NotOwed THEN o ELSE o + 1

\* history: the load of the block list ends a reload, the flag being flag
Answer(flag) == IF flag THEN 0 ELSE NotOwed

\* a SIGHUP arrives
SIGHUP ==
    /\ pc \in MainPcs
    /\ reload_config' = sighup_handler(reload_config)
    /\ owed' = Ask(owed)
    /\ UNCHANGED <<pc, line, fieldVars, timestamp, match, listVars,
                   blocklist_purge_time, new_contents, fileVars, clock, sent,
                   envVars, starVars, pastVars>>

\* purge_list: where it goes after the scan: "if file_changed:"
purge_next(file_changed) == IF file_changed THEN "purge_remove" ELSE "read"

\* the head of the loop: the purge date is checked and purge_list scans the
\* block list file
PurgeCheck ==
    /\ pc = "top"
    /\ IF Time(clock) - blocklist_purge_time > blocklist_purge_days * day_secs
       THEN /\ blocklist_purge_time' = Time(clock)
            /\ IF ~block_dat.exists
               THEN /\ pc' = "read"
                    /\ UNCHANGED <<blocklist, new_contents, purged>>
               ELSE LET p == PurgeScan(blocklist, block_dat, Time(clock),
                                       blocklist_lifetime_days)
                    IN  IF p.err
                        THEN /\ pc' = "crashed"
                             /\ UNCHANGED <<blocklist, new_contents, purged>>
                        ELSE /\ blocklist' = p.list
                             /\ new_contents' = IF p.file_changed
                                                THEN p.new_contents ELSE <<>>
                             /\ pc' = purge_next(p.file_changed)
                             /\ purged' = [active |-> TRUE,
                                           removed |-> Len(p.list) < Len(blocklist),
                                           list |-> blocklist,
                                           dat |-> block_dat,
                                           backup |-> block_backup]
       ELSE /\ pc' = "read"
            /\ UNCHANGED <<blocklist, blocklist_purge_time, new_contents, purged>>
    /\ UNCHANGED <<line, fieldVars, timestamp, match, reload_config, allowlist,
                   fileVars, clock, sent, envVars, starVars, fresh, seen, nread,
                   handed, owed>>

\* purge_list: os.remove(backup_file) if it exists
PurgeRemoveBackup ==
    /\ pc = "purge_remove"
    /\ block_backup' = NoFile
    /\ pc' = "purge_rename"
    /\ UNCHANGED <<line, fieldVars, timestamp, match, reload_config, listVars,
                   blocklist_purge_time, new_contents, allow_dat, allow_match,
                   block_dat, block_match, calllog, clock, sent, envVars,
                   starVars, histVars>>

\* purge_list: os.rename(list_file, backup_file)
PurgeRename ==
    /\ pc = "purge_rename"
    /\ block_backup' = block_dat
    /\ block_dat' = NoFile
    /\ pc' = "purge_open"
    /\ UNCHANGED <<line, fieldVars, timestamp, match, reload_config, listVars,
                   blocklist_purge_time, new_contents, allow_dat, allow_match,
                   block_match, calllog, clock, sent, envVars, starVars, histVars>>

\* purge_list: open(list_file, 'w')
PurgeOpen ==
    /\ pc = "purge_open"
    /\ block_dat' = File(<<>>)
    /\ pc' = "purge_write"
    /\ UNCHANGED <<line, fieldVars, timestamp, match, reload_config, listVars,
                   blocklist_purge_time, new_contents, allow_dat, allow_match,
                   block_match, block_backup, calllog, clock, sent, envVars,
                   starVars, histVars>>

\* purge_list: file.write(new_contents)
PurgeWrite ==
    /\ pc = "purge_write"
    /\ block_dat' = File(new_contents)
    /\ new_contents' = <<>>
    /\ pc' = "read"
    /\ UNCHANGED <<line, fieldVars, timestamp, match, reload_config, listVars,
                   blocklist_purge_time, allow_dat, allow_match,
                   block_match, block_backup, calllog, clock, sent, envVars,
                   starVars, histVars>>

\* line = modem.read_line(): the call blocks for as long as the modem is
\* silent
ReadLine ==
    /\ pc = "read"
    /\ nread < MaxLines
    /\ \E l \in modem_lines : line' = l
    /\ \E c \in clock..Len(Instants) : clock' = c
    /\ nread' = nread + 1
    /\ purged' = NotPurged
    /\ owed' = Wait(owed)
    /\ pc' = "sighup"
    /\ UNCHANGED <<fieldVars, timestamp, match, reload_config, listVars,
                   blocklist_purge_time, new_contents, fileVars, sent, envVars,
                   starVars, fresh, seen, handed>>

\* if reload_config:
TestReload ==
    /\ pc = "sighup"
    /\ pc' = IF reload_config THEN "clear" ELSE "accum"
    /\ UNCHANGED <<line, fieldVars, timestamp, match, reload_config, listVars,
                   blocklist_purge_time, new_contents, fileVars, clock, sent,
                   envVars, starVars, histVars>>

\* reload_config = False
ClearReload ==
    /\ pc = "clear"
    /\ reload_config' = FALSE
    /\ pc' = "reload_allow"
    /\ UNCHANGED <<line, fieldVars, timestamp, match, listVars,
                   blocklist_purge_time, new_contents, fileVars, clock, sent,
                   envVars, starVars, histVars>>

\* allowlist = read_list(allowlist_file); update_list_match(allowlist, ...)
ReloadAllow ==
    /\ pc = "reload_allow"
    /\ LET r == read_list(allow_dat, allow_match, NowText(clock)) IN
       IF r.err
       THEN /\ pc' = "crashed"
            /\ UNCHANGED <<allowlist, allow_match>>
       ELSE /\ allowlist' = r.list
            /\ allow_match' = update_list_match(r.list)
            /\ pc' = "reload_block"
    /\ UNCHANGED <<line, fieldVars, timestamp, match, reload_config, blocklist,
                   blocklist_purge_time, new_contents, allow_dat, block_dat,
                   block_match, block_backup, calllog, clock, sent, envVars,
                   starVars, histVars>>

\* blocklist = read_list(blocklist_file); update_list_match(blocklist, ...)
ReloadBlock ==
    /\ pc = "reload_block"
    /\ LET r == read_list(block_dat, block_match, NowText(clock)) IN
       IF r.err
       THEN /\ pc' = "crashed"
            /\ UNCHANGED <<blocklist, block_match, owed>>
       ELSE /\ blocklist' = r.list
            /\ block_match' = update_list_match(r.list)
            /\ owed' = Answer(reload_config)
            /\ pc' = "accum"
    /\ UNCHANGED <<line, fieldVars, timestamp, match, reload_config, allowlist,
                   blocklist_purge_time, new_contents, allow_dat, allow_match,
                   block_dat, block_backup, calllog, clock, sent, envVars,
                   starVars, pastVars>>

\* a faulty completion, in which every RING completes the Caller ID
CompletesOnRing(l, date) ==
    StartsWith(l, RING) \/ (StartsWith(l, <<"N","A","M","E">>) /\ date # <<>>)

\* a faulty completion, in which only a NAME completes the Caller ID
CompletesOnName(l, date) ==
    StartsWith(l, <<"N","A","M","E">>) /\ date # <<>>

\* whether the line read completes the Caller ID: control reaches the
\* screening, past every continue of the if/elif chain (date is call_date)
Completes(l, date) ==
    IF StartsWith(l, RING) THEN date # <<>>
    ELSE IF StartsWith(l, <<"D","A","T","E">>) THEN FALSE
    ELSE IF StartsWith(l, <<"T","I","M","E">>) THEN FALSE
    ELSE IF StartsWith(l, <<"N","M","B","R">>) THEN FALSE
    ELSE IF StartsWith(l, <<"N","A","M","E">>) THEN date # <<>>
    ELSE FALSE

\* look for RING and Caller ID.  (A variable whose value the code reads no
\* more before it assigns it again - line here, and timestamp, match,
\* new_contents after their use - is set back to its initial value.)
Accumulate ==
    /\ pc = "accum"
    /\ IF StartsWith(line, RING)
       THEN UNCHANGED <<fieldVars, fresh>>
       ELSE IF StartsWith(line, <<"D","A","T","E">>)
       THEN /\ call_date' = StripKey(line)
            /\ fresh' = [fresh EXCEPT !.date = TRUE]
            /\ UNCHANGED <<call_time, call_number, call_name>>
       ELSE IF StartsWith(line, <<"T","I","M","E">>)
       THEN /\ call_time' = StripKey(line)
            /\ fresh' = [fresh EXCEPT !.time = TRUE]
            /\ UNCHANGED <<call_date, call_number, call_name>>
       ELSE IF StartsWith(line, <<"N","M","B","R">>)
       THEN /\ call_number' = StripKey(line)
            /\ fresh' = [fresh EXCEPT !.number = TRUE]
            /\ UNCHANGED <<call_date, call_time, call_name>>
       ELSE IF StartsWith(line, <<"N","A","M","E">>)
       THEN /\ call_name' = StripKey(line)
            /\ fresh' = [fresh EXCEPT !.name = TRUE]
            /\ UNCHANGED <<call_date, call_time, call_number>>
       ELSE UNCHANGED <<fieldVars, fresh>>
    /\ IF Completes(line, call_date)
       THEN pc' = "screen" /\ line' = line /\ handed' = handed + 1
       ELSE pc' = "top" /\ line' = <<>> /\ handed' = handed
    /\ UNCHANGED <<timestamp, match, reload_config, listVars,
                   blocklist_purge_time, new_contents, fileVars, clock, sent,
                   envVars, starVars, seen, nread, purged, owed>>

\* a faulty item, which counts the key press as a match
star_item_counted(regex, now) ==
    [regex |-> regex, permanent |-> FALSE, timestamp |-> now, count |-> 1]

\* the item a star key press adds to the block list
star_item(regex, now) ==
    [regex |-> regex, permanent |-> FALSE, timestamp |-> now, count |-> 0]

\* a faulty append, which opens the file with 'w'
write_only(file, l) == File(<<l>>)

\* with open(file, 'a') as file: file.write(line)
append_line(file, l) == File(Append(file.lines, l))

\* the line a star key press appends to the block list file
star_line(regex) == regex \o <<";", ";", "added by user * key">>

\* check for matches: the screening of one record.  al, bl are the lists,
\* dat the block list file, now is time.strftime("%Y-%m-%d %H:%M"), events
\* what the modem delivers if wait_for_star is called.  The result holds the
\* outcome, the lists, the block list file, which match file is rewritten,
\* the commands sent and what wait_for_star returned
screen_call(al, bl, dat, number, name, ts, now, events) ==
    LET a == match_list_both(al, number, name, ts) IN
    IF a.hit
    THEN [match |-> "allow", allowlist |-> a.list, blocklist |-> bl,
          block_dat |-> dat, update |-> "allow", sent |-> <<>>, star |-> FALSE]
    ELSE LET b == match_list_both(bl, number, name, ts) IN
    IF b.hit
    THEN [match |-> "block", allowlist |-> al, blocklist |-> b.list,
          block_dat |-> dat, update |-> "block", sent |-> terminate_call,
          star |-> FALSE]
    ELSE LET r == wait_for_star(events)
             regex == IF ReCompiles(number) THEN number ELSE <<>>
         IN  IF r.star /\ regex # <<>>
             THEN [match |-> "added to block by user * key", allowlist |-> al,
                   blocklist |-> Put(bl, star_item(regex, now)),
                   block_dat |-> append_line(dat, star_line(regex)),
                   update |-> "none", sent |-> r.sent, star |-> r.star]
             ELSE [match |-> "no match", allowlist |-> al, blocklist |-> bl,
                   block_dat |-> dat, update |-> "none", sent |-> r.sent,
                   star |-> r.star]

\* whether some pattern of the list matches the number or the name
Hit(list, number, name) ==
    \E i \in DOMAIN list :
        ReMatch(list[i].regex, number) \/ ReMatch(list[i].regex, name)

\* create timestamp; check for matches
Screen ==
    /\ pc = "screen"
    /\ \E events \in star_events :
         LET ts == Timestamp(Instants[clock], call_date, call_time)
             s  == screen_call(allowlist, blocklist, block_dat, call_number,
                               call_name, ts, NowText(clock), events)
         IN  /\ timestamp' = ts
             /\ match' = s.match
             /\ allowlist' = s.allowlist
             /\ blocklist' = s.blocklist
             /\ block_dat' = s.block_dat
             /\ allow_match' = IF s.update = "allow"
                               THEN update_list_match(s.allowlist) ELSE allow_match
             /\ block_match' = IF s.update = "block"
                               THEN update_list_match(s.blocklist) ELSE block_match
             /\ sent' = s.sent
             /\ seen' = [allow |-> Hit(allowlist, call_number, call_name),
                         block |-> Hit(blocklist, call_number, call_name),
                         star  |-> s.star,
                         added |-> s.block_dat # block_dat]
    /\ fresh' = NoneFresh
    /\ pc' = "log"
    /\ UNCHANGED <<line, fieldVars, reload_config, blocklist_purge_time,
                   new_contents, allow_dat, block_backup, calllog, clock,
                   envVars, starVars, nread, purged, handed, owed>>

\* the line of the call log
log_line(ts, number, name, outcome) ==
    ts \o <<" ", " ">> \o space_fill(number, 12) \o space_fill(name, 17)
    \o <<" ", ":", " ", outcome>>

\* a faulty reset, which keeps the name
reset_but_name(f) == [f EXCEPT !.date = <<>>, !.time = <<>>, !.number = <<>>]

\* the fields after the call is logged
reset_fields(f) == [date |-> <<>>, time |-> <<>>, number |-> <<>>, name |-> <<>>]

\* log call; the fields are emptied
LogCall ==
    /\ pc = "log"
    /\ calllog' = append_line(calllog, log_line(timestamp, call_number,
                                                call_name, match))
    /\ LET f == reset_fields([date |-> call_date, time |-> call_time,
                              number |-> call_number, name |-> call_name])
       IN  /\ call_date' = f.date
           /\ call_time' = f.time
           /\ call_number' = f.number
           /\ call_name' = f.name
    /\ line' = <<>> /\ timestamp' = <<>> /\ match' = "no match"
    /\ sent' = <<>>
    /\ seen' = NotSeen
    /\ pc' = "top"
    /\ UNCHANGED <<reload_config, listVars, blocklist_purge_time, new_contents,
                   allow_dat, allow_match, block_dat, block_match, block_backup,
                   clock, envVars, starVars, fresh, nread, purged, handed, owed>>

Next ==
    \/ SIGHUP
    \/ PurgeCheck
    \/ PurgeRemoveBackup
    \/ PurgeRename
    \/ PurgeOpen
    \/ PurgeWrite
    \/ ReadLine
    \/ TestReload
    \/ ClearReload
    \/ ReloadAllow
    \/ ReloadBlock
    \/ Accumulate
    \/ Screen
    \/ LogCall

Spec == Init /\ [][Next]_vars

----------------------------------------------------------------------------
(* purge_list, from the head of the main loop *)

\* the lines of a block list file
MaxDatLines == 2

\* lines of a block list file: two patterns, a permanent one, one with an
\* embedded semicolon, a comment, one that does not compile, a blank one
DatLines ==
    { <<"^", "1", ";", ";", "spam">>,
      <<"2", ";", ";", "added by user * key">>,
      <<"b", ";", "p", ";", "friend">>,
      <<"a", "\\", ";", "b", ";", ";", "x">>,
      <<"#", "^", "1", ";", ";", "old">>,
      <<"(", ";", ";", "bad">>,
      <<>> }

DatFiles ==
    UNION { [1..n -> DatLines] : n \in 0..MaxDatLines }

\* the times of the last match: now, the block list's lifetime ago to the
\* second, a minute earlier than that, and the timestamp of a Caller ID that
\* held no TIME line
Stamps ==
    { NowText(1),
      Strftime([year |-> 2025, mon |-> 4, day |-> 7, hour |-> 10, min |-> 31]),
      Strftime([year |-> 2025, mon |-> 4, day |-> 7, hour |-> 10, min |-> 30]),
      Timestamp(Instants[1], <<"0","1","0","2">>, <<>>) }

\* the lists of a run in progress: the block list's file read at the start,
\* its items matched since, the match history written
ListsInUse ==
    /\ allow_dat = AllowDat
    /\ allowlist = read_list(allow_dat, NoFile, NowText(1)).list
    /\ allow_match = update_list_match(allowlist)
    /\ \E ls \in DatFiles : block_dat = File(ls)
    /\ \E stamps \in [1..MaxDatLines -> Stamps] :
         LET list == read_list(block_dat, NoFile, NowText(1)).list
         IN  blocklist = [i \in DOMAIN list |->
                            [list[i] EXCEPT !.timestamp = stamps[i],
                                            !.count = IF stamps[i] = NowText(1)
                                                      THEN 0 ELSE 1]]
    /\ block_match = update_list_match(blocklist)
    /\ block_backup \in {NoFile, File(<< <<"^", "0", ";", ";", "older">> >>)}

\* the head of the main loop with a purge due
InitPurge ==
    /\ pc = "top"
    /\ NoCall /\ Environment /\ NoStar /\ NoPurge
    /\ reload_config = FALSE
    /\ clock = 1
    /\ blocklist_purge_time = 0
    /\ ListsInUse

NextPurge ==
    \/ PurgeCheck
    \/ PurgeRemoveBackup
    \/ PurgeRename
    \/ PurgeOpen
    \/ PurgeWrite

SpecPurge == InitPurge /\ [][NextPurge]_vars

\* the pattern of a line of the list file
LineKey(l) ==
    LET line_list == Split(l, ";") IN Rejoin(Head(line_list), Tail(line_list)).regex

\* whether line i of the file the purge found is one to remove: its pattern
\* is in the list the purge found, on no earlier line, not permanent, and
\* last matched more than the lifetime ago
ToRemove(i) ==
    LET lines == purged.dat.lines
        key == LineKey(lines[i])
    IN  /\ ~StartsWith(lines[i], <<"#">>)
        /\ InList(purged.list, key)
        /\ \A j \in 1..(i - 1) :
              StartsWith(lines[j], <<"#">>) \/ LineKey(lines[j]) # key
        /\ ~Item(purged.list, key).permanent
        /\ Time(clock) - Mktime(StrptimeFields(Item(purged.list, key).timestamp))
              > blocklist_lifetime_days * 24 * 3600

\* C7: a purge that runs to its end removes an entry - comments out its line
\* of the list file and deletes it from the list in memory - if and only if
\* the line's pattern is in the list, the entry is not permanent and its
\* last match is more than the lifetime ago; a permanent entry stays
\* whatever its age, and every other line is copied unchanged, in order.
C7_PurgeRemovesIffOverdue ==
    (pc = "read" /\ purged.active) =>
        LET lines == purged.dat.lines IN
        /\ Len(block_dat.lines) = Len(lines)
        /\ \A i \in DOMAIN lines :
              IF ToRemove(i)
              THEN /\ StartsWith(block_dat.lines[i], <<"#">>)
                   /\ EndsWith(block_dat.lines[i], <<"#">> \o lines[i])
                   /\ ~InList(blocklist, LineKey(lines[i]))
              ELSE block_dat.lines[i] = lines[i]
        /\ blocklist = SelectSeq(purged.list,
                          LAMBDA it : \A i \in DOMAIN lines :
                                         ~(ToRemove(i) /\ LineKey(lines[i]) = it.regex))

\* a purge ended that removed one entry and kept a permanent one as old
C7_Witness ==
    /\ pc = "read" /\ purged.active
    /\ Len(purged.list) = 2 /\ Len(blocklist) = 1
    /\ blocklist[1].permanent
    /\ blocklist[1].timestamp # NowText(clock)
    /\ Len(block_dat.lines) = 2

\* C8: the purge touches the files only when an entry was removed: with no
\* removal the list file and the backup stay as they were; with a removal
\* the purge ends with the backup holding the list file as the purge found
\* it, and at every step on the way there that text is whole in the list
\* file or in the backup.
C8_PurgeKeepsOldContents ==
    purged.active =>
        /\ ~purged.removed =>
              /\ pc = "read"
              /\ block_dat = purged.dat
              /\ block_backup = purged.backup
        /\ purged.removed =>
              /\ block_dat = purged.dat \/ block_backup = purged.dat
              /\ pc = "read" => block_backup = purged.dat /\ block_dat # purged.dat

\* a purge that removed an entry has replaced an older backup and is about
\* to write the list file
C8_Witness ==
    /\ pc = "purge_write" /\ purged.active /\ purged.removed
    /\ purged.backup.exists
    /\ block_backup = purged.dat /\ block_dat = File(<<>>)

----------------------------------------------------------------------------
(* read_list and update_list_match: the reload of the lists *)

\* a line has been read and a reload is pending
InitList ==
    /\ pc = "sighup"
    /\ NoCall /\ Environment /\ NoStar /\ NoPurge
    /\ reload_config = TRUE
    /\ clock \in 1..Len(Instants)
    /\ blocklist_purge_time = Time(clock)
    /\ ListsInUse

NextList ==
    \/ TestReload
    \/ ClearReload
    \/ ReloadAllow
    \/ ReloadBlock

SpecList == InitList /\ [][NextList]_vars

\* C6: history round trip: the match history file having been written from
\* the list in memory, a load of the list file brings back, for every
\* pattern in the list before and after (also a pattern with an escaped
\* semicolon), the match count and the time of the last match.
C6_HistoryRoundTrip ==
    [][(pc = "reload_block" /\ pc' = "accum") =>
          \A i \in DOMAIN blocklist : \A j \in DOMAIN blocklist' :
              blocklist[i].regex = blocklist'[j].regex =>
                  /\ blocklist'[j].count = blocklist[i].count
                  /\ blocklist'[j].timestamp = blocklist[i].timestamp]_vars

----------------------------------------------------------------------------
(* Modem.wait_for_star, pass by pass of its loop *)

\* the bytes a call may deliver while the star key is waited for
Scripts ==
    { <<>>,
      star_bytes,
      ring_bytes1 \o star_bytes,
      ring_bytes2 \o ring_bytes1,
      <<DLE, "/", DLE, "R", DLE, "*", DLE, "~">>,
      <<DLE, "/", "\n", DLE, "*", DLE, "~">>,
      <<DLE, DLE, "R", "R">> \o star_bytes }

\* the state on entering the loop of wait_for_star, the main loop at rest
InitStar ==
    /\ pc = "star_loop"
    /\ script \in Scripts
    /\ w = StarInit(0) /\ star_ret = FALSE /\ heard = NotHeard
    /\ NoCall /\ Environment /\ NoPurge
    /\ reload_config = FALSE
    /\ clock = 1
    /\ allow_dat = AllowDat /\ block_dat = BlockDat
    /\ allowlist = <<>> /\ blocklist = <<>>
    /\ allow_match = NoFile /\ block_match = NoFile /\ block_backup = NoFile
    /\ blocklist_purge_time = 0

\* history: what the pass that reads byte b into the buffer buf at time t
\* observed: a ring when b ends <DLE>R or <DLE>r, the star when b ends the
\* DTMF marker
Hear(h, buf, b, t) ==
    LET got == buf \o b IN
    IF b = <<>> \/ b = <<"\n">> THEN h
    ELSE IF EndsWith(got, ring_bytes1) \/ EndsWith(got, ring_bytes2)
    THEN [h EXCEPT !.ring = t]
    ELSE IF EndsWith(got, star_bytes) THEN [h EXCEPT !.star = t]
    ELSE h

\* one pass of the loop: read(1) returns the next byte within the timeout,
\* or nothing at the timeout
StarRead ==
    /\ pc = "star_loop"
    /\ StarGuard(w)
    /\ \/ /\ script # <<>>
          /\ \E dt \in 0..ReadTimeout :
               /\ w' = StarStep(w, [byte |-> <<Head(script)>>, dt |-> dt])
               /\ heard' = Hear(heard, w.read_bytes, <<Head(script)>>, w.now + dt)
          /\ script' = Tail(script)
       \/ /\ w' = StarStep(w, TimeoutEv)
          /\ UNCHANGED <<script, heard>>
    /\ UNCHANGED <<pc, line, fieldVars, timestamp, match, reload_config, listVars,
                   blocklist_purge_time, new_contents, fileVars, clock, sent,
                   envVars, star_ret, histVars>>

\* the loop ends: ATH is sent and "star_bytes in read_bytes" returned
StarExit ==
    /\ pc = "star_loop"
    /\ ~StarGuard(w)
    /\ w' = [w EXCEPT !.sent = Append(@, "ATH")]
    /\ star_ret' = Contains(w.read_bytes, star_bytes)
    /\ pc' = "star_done"
    /\ UNCHANGED <<line, fieldVars, timestamp, match, reload_config, listVars,
                   blocklist_purge_time, new_contents, fileVars, clock, sent,
                   envVars, script, heard, histVars>>

NextStar == StarRead \/ StarExit

SpecStar == InitStar /\ [][NextStar]_vars

\* what C9 says besides the time of the star: false is returned once the
\* window has elapsed since the start or the last ring with no star seen,
\* the buffer never holds a ring sequence, a ring alone never makes the
\* result true, and the window is counted from the last ring
RingsRestartWindow ==
    /\ w.last_ring = heard.ring
    /\ ~Contains(w.read_bytes, ring_bytes1) /\ ~Contains(w.read_bytes, ring_bytes2)
    /\ pc = "star_done" =>
          /\ star_ret <=> heard.star >= 0
          /\ ~star_ret => w.now - heard.ring >= StarWindow

\* C9, as claimed: wait_for_star returns true only if the star marker
\* appears in the buffer before the window of 10 seconds, counted from the
\* start or the last ring, has elapsed; it returns false once the window
\* elapses with no star; rings are stripped, never make the result true and
\* restart the window.
C9_StarBeforeWindowEnds ==
    /\ RingsRestartWindow
    /\ (pc = "star_done" /\ star_ret) => heard.star - heard.ring < StarWindow

\* C9, amended: wait_for_star returns true only if the star marker is
\* completed by a read that was issued before the window had elapsed, so at
\* most one read timeout after its end; the rest as claimed.
C9_StarByReadIssuedInWindow ==
    /\ RingsRestartWindow
    /\ (pc = "star_done" /\ star_ret) =>
          /\ heard.star = w.now
          /\ w.read_at - heard.ring < StarWindow
          /\ heard.star - w.read_at <= ReadTimeout

\* true is returned for a star that came after a ring and after the window
\* that the ring restarted had elapsed
C9_Witness ==
    /\ pc = "star_done" /\ star_ret
    /\ heard.ring > 0 /\ heard.star - heard.ring >= StarWindow

----------------------------------------------------------------------------
(* Properties of the screening *)

\* whether the commands hold the fax answer of terminate_call
Terminated(cmds) == "ATA" \in Range(cmds)

\* whether the commands hold the voice mode of wait_for_star
StarEngaged(cmds) == "AT+FCLASS=8" \in Range(cmds)

\* the step that screens the record
ScreenStep == pc = "screen" /\ pc' = "log"

\* C1: a completed record makes the modem terminate the call if and only if
\* the allow list matched neither the number nor the name and the block list
\* matched one of them; a record the allow list matches is never terminated
\* and never reaches the star-key detector.
C1_TerminateIffBlockedNotAllowed ==
    [][ScreenStep =>
           LET a == Hit(allowlist, call_number, call_name)
               b == Hit(blocklist, call_number, call_name)
           IN  /\ Terminated(sent') <=> (~a /\ b)
               /\ a => ~Terminated(sent') /\ ~StarEngaged(sent')]_vars

\* a record that both lists match has been screened, and nothing was sent
C1_Witness ==
    pc = "log" /\ seen.allow /\ seen.block /\ sent = <<>> /\ match = "allow"

\* the outcome the decision order gives
Outcome(s) ==
    IF s.allow THEN "allow"
    ELSE IF s.block THEN "block"
    ELSE IF s.star /\ s.added THEN "added to block by user * key"
    ELSE "no match"

\* C2: every completed record appends exactly one line to the call log, its
\* outcome given by the decision order (allow, then block, then the star key
\* with the number added, else no match); nothing else appends to the log.
C2_OneLogLinePerRecord ==
    /\ [](Len(calllog.lines) + (IF pc \in {"screen", "log"} THEN 1 ELSE 0) = handed)
    /\ [][/\ calllog' # calllog => pc = "log"
          /\ (pc = "log" /\ pc' # "log") =>
                /\ calllog'.exists
                /\ Len(calllog'.lines) = Len(calllog.lines) + 1
                /\ SubSeq(calllog'.lines, 1, Len(calllog.lines)) = calllog.lines
                /\ LET l == calllog'.lines[Len(calllog'.lines)]
                   IN  l[Len(l)] = Outcome(seen)]_vars

\* a record for which the star key added the number has been logged, after
\* an earlier one
C2_Witness ==
    /\ pc = "top" /\ Len(calllog.lines) = 2
    /\ LET l == calllog.lines[2] IN l[Len(l)] = "added to block by user * key"

\* C3: a modem line hands a record to screening if and only if a DATE line
\* was captured since the last hand-off and the line is a NAME or a RING
\* line.
C3_EmitsIffDateAndNameOrRing ==
    [][(pc = "accum" /\ pc' # "accum") =>
          ((pc' = "screen") <=>
              (fresh.date /\ (StartsWith(line, RING)
                              \/ StartsWith(line, <<"N","A","M","E">>))))]_vars

\* a RING completed a record that has no NAME
C3_Witness ==
    pc = "screen" /\ StartsWith(line, RING) /\ ~fresh.name /\ fresh.number

\* C4, as claimed: a RING line that arrives when a date has been captured
\* does not complete the record.
C4_RingNeverCompletes ==
    [][(pc = "accum" /\ StartsWith(line, RING)) => pc' # "screen"]_vars

\* C4, amended: a RING line that arrives when a date has been captured
\* completes the record: the fields captured so far are handed to screening
\* as they are; a RING that arrives with no date captured is ignored.
C4_RingWithDateCompletes ==
    [][(pc = "accum" /\ pc' # "accum" /\ StartsWith(line, RING)) =>
          /\ UNCHANGED fieldVars
          /\ (call_date # <<>>) => pc' = "screen"
          /\ (call_date = <<>>) => pc' = "top"]_vars

\* a RING completed a record that holds a date and a time only
C4_Witness ==
    /\ pc = "screen" /\ StartsWith(line, RING)
    /\ call_date # <<>> /\ call_time # <<>> /\ call_number = <<>> /\ call_name = <<>>

\* C5: once a record is handed to screening its four fields are emptied
\* before the next modem line is read: outside the logging of a record, a
\* field holds a value only if a line captured it since the last hand-off.
C5_FieldsResetAfterHandOff ==
    pc # "log" =>
        /\ ~fresh.date => call_date = <<>>
        /\ ~fresh.time => call_time = <<>>
        /\ ~fresh.number => call_number = <<>>
        /\ ~fresh.name => call_name = <<>>

\* a second record is handed to screening with no name, after a first one
\* that held the name B
C5_Witness ==
    /\ pc = "screen" /\ handed = 2 /\ call_name = <<>>
    /\ "B" \in Range(calllog.lines[1])

\* what C10 says of a record that matched neither list and for which the star
\* key was detected, when valid tells the numbers that are added
StarKeyAdds(valid) ==
    (ScreenStep /\ ~Hit(allowlist, call_number, call_name)
                /\ ~Hit(blocklist, call_number, call_name)
                /\ seen'.star) =>
          IF valid
          THEN /\ InList(blocklist', call_number)
               /\ Item(blocklist', call_number).count = 0
               /\ Item(blocklist', call_number).permanent = FALSE
               /\ block_dat'.lines = Append(block_dat.lines, star_line(call_number))
               /\ match' = "added to block by user * key"
          ELSE /\ blocklist' = blocklist
               /\ block_dat' = block_dat

\* C10, as claimed: if the number, which may be empty, compiles, the block
\* list gets an item for it with count 0 and permanent false, the block list
\* file one line, and the outcome is "added to block by user * key"; if it
\* does not compile, neither is changed.
C10_AddsWheneverCompiles == [][StarKeyAdds(ReCompiles(call_number))]_vars

\* C10, amended: the same of a number that is not empty and compiles; if the
\* number is empty or does not compile, neither the list nor the file is
\* changed.
C10_AddsNonEmptyCompiling ==
    [][StarKeyAdds(call_number # <<>> /\ ReCompiles(call_number))]_vars

\* the star key added a number to the block list
C10_Witness ==
    /\ pc = "log" /\ seen.star /\ seen.added
    /\ InList(blocklist, call_number)
    /\ match = "added to block by user * key"

----------------------------------------------------------------------------
(* Properties of the reload *)

\* C11: no reload request is lost: whenever a signal sets the flag, at any
\* point of the main loop, both lists are read from their files by loads
\* that start after the signal, before the first line read after the signal
\* is looked at, and so no later than the second.
C11_NoReloadRequestLost ==
    /\ owed \in {-1, 0, 1}
    /\ owed = 1 => pc \in {"sighup", "clear", "reload_allow", "reload_block"}

\* a signal arrived between the test of the flag and its clearing, or
\* earlier: the flag is clear, the reload it asked for is under way
C11_Witness ==
    pc = "reload_allow" /\ ~reload_config /\ owed = 0

----------------------------------------------------------------------------
(* Properties of the error handling *)

\* C12: no input aborts the main loop: whatever the list files, the match
\* history files and the modem lines hold, also a record completed before a
\* TIME line was seen, load, match, purge and logging deal with it and the
\* loop goes on to read the next modem line: no exception ends main().
C12_LoopNeverAborts == pc # "crashed"

----------------------------------------------------------------------------
(* Properties of the escaped semicolon *)

\* the pattern a;b as a list file writes it, and a line that holds it
EscapedText == <<"a", "\\", ";", "b">>

EscapedLine == EscapedText \o <<";", ";", "x">>

\* C13: a line of the list file whose pattern is written a\;b loads as an
\* entry with the key a;b; purge finds the same key for the line (it
\* removes the entry a;b exactly when it comments the line out), and the
\* file that purge writes holds the line's pattern as a\;b still.
C13_EscapedSemicolonKept ==
    LET key == <<"a", ";", "b">> IN
    /\ pc = "top" =>
          ((\E i \in DOMAIN block_dat.lines : block_dat.lines[i] = EscapedLine)
              <=> InList(blocklist, key))
    /\ (pc = "read" /\ purged.active) =>
          /\ \A i \in DOMAIN purged.dat.lines :
                purged.dat.lines[i] = EscapedLine =>
                    /\ EndsWith(block_dat.lines[i], EscapedLine)
                    /\ Contains(block_dat.lines[i], EscapedText)
          /\ InList(purged.list, key) =>
                (InList(blocklist, key) <=>
                    \A i \in DOMAIN purged.dat.lines :
                        purged.dat.lines[i] = EscapedLine
                            => block_dat.lines[i] = EscapedLine)

\* a purge has commented out the line of the pattern a\;b and removed the
\* entry a;b
C13_Witness ==
    /\ pc = "read" /\ purged.active
    /\ InList(purged.list, <<"a", ";", "b">>)
    /\ ~InList(blocklist, <<"a", ";", "b">>)
    /\ \E i \in DOMAIN purged.dat.lines :
          /\ purged.dat.lines[i] = EscapedLine
          /\ block_dat.lines[i] # EscapedLine
          /\ EndsWith(block_dat.lines[i], EscapedLine)

----------------------------------------------------------------------------
(* Properties of the match history *)

\* the pattern of a line of a match history file: what follows the second
\* semicolon
HistoryKey(l) == SplitMax(l, ";", 2)[3]

\* the file holds exactly one line for each pattern of the list, and no other
OneLinePerPattern(file, list) ==
    /\ file.exists
    /\ Len(file.lines) = Len(list)
    /\ \A k \in DOMAIN list :
          Cardinality({i \in DOMAIN file.lines :
                          HistoryKey(file.lines[i]) = list[k].regex}) = 1

\* C14: the match history file of a list is written anew from the list in
\* memory after every match on the list, after every reload and after every
\* pattern the star key appends to the block list: right after each of
\* these it holds exactly one line for each pattern of the list.
C14_HistoryFileFollowsList ==
    [][/\ (ScreenStep /\ seen'.allow) => OneLinePerPattern(allow_match', allowlist')
       /\ (ScreenStep /\ ~seen'.allow /\ seen'.block)
             => OneLinePerPattern(block_match', blocklist')
       /\ (ScreenStep /\ seen'.added) => OneLinePerPattern(block_match', blocklist')
       /\ (pc = "reload_allow" /\ pc' = "reload_block")
             => OneLinePerPattern(allow_match', allowlist')
       /\ (pc = "reload_block" /\ pc' = "accum")
             => OneLinePerPattern(block_match', blocklist')]_vars

----------------------------------------------------------------------------
(* match_list_both, in the screening of one record *)

\* lines of a list file whose patterns match the same numbers and names
MatchDatLines ==
    { <<"^", "1", ";", ";", "spam">>,
      <<".", ";", ";", "any">>,
      <<"b", ";", "p", ";", "friend">> }

MatchDatFiles == UNION { [1..n -> MatchDatLines] : n \in 0..MaxDatLines }

\* a record has been handed to screening: the lists as read at the start
InitMatch ==
    /\ pc = "screen"
    /\ line = RING
    /\ call_date = <<"0", "1", "0", "2">>
    /\ call_time = <<"1", "0", "3", "0">>
    /\ call_number \in {<<>>, <<"1">>, <<"2">>}
    /\ call_name \in {<<>>, <<"B">>}
    /\ fresh = [date |-> TRUE, time |-> TRUE, number |-> call_number # <<>>,
                name |-> call_name # <<>>]
    /\ timestamp = <<>> /\ match = "no match" /\ sent = <<>>
    /\ calllog = NoFile /\ seen = NotSeen
    /\ nread = 1 /\ handed = 1 /\ owed = NotOwed
    /\ Environment /\ NoStar /\ NoPurge
    /\ reload_config = FALSE
    /\ clock = 1
    /\ blocklist_purge_time = Time(clock)
    /\ \E ls \in MatchDatFiles : allow_dat = File(ls)
    /\ \E ls \in MatchDatFiles : block_dat = File(ls)
    /\ allowlist = read_list(allow_dat, NoFile, NowText(clock)).list
    /\ blocklist = read_list(block_dat, NoFile, NowText(clock)).list
    /\ allow_match = update_list_match(allowlist)
    /\ block_match = update_list_match(blocklist)
    /\ block_backup = NoFile

NextMatch == Screen \/ LogCall

SpecMatch == InitMatch /\ [][NextMatch]_vars

\* the place in the list of the first item whose pattern matches s, 0 if
\* none does
FirstMatch(list, s) ==
    IF \E i \in DOMAIN list : ReMatch(list[i].regex, s)
    THEN CHOOSE i \in DOMAIN list :
            /\ ReMatch(list[i].regex, s)
            /\ \A j \in DOMAIN list : ReMatch(list[j].regex, s) => i <= j
    ELSE 0

\* the item that the number, or else the name, matches first, 0 if none
FirstOfBoth(list, number, name) ==
    IF FirstMatch(list, number) # 0 THEN FirstMatch(list, number)
    ELSE FirstMatch(list, name)

\* after is before but for item k, which has the timestamp ts and one more
\* count; for k = 0 after is before
OnlyCounted(before, after, k, ts) ==
    /\ DOMAIN after = DOMAIN before
    /\ \A i \in DOMAIN before :
          after[i] = IF i = k
                     THEN [before[i] EXCEPT !.timestamp = ts, !.count = @ + 1]
                     ELSE before[i]

\* C15: match_list_both tries the number first and the name only if the
\* number matched no item; on a hit exactly one item of the list, the first
\* in the list's order whose pattern matches, gets the timestamp given and
\* one more count, and no other item changes; with no hit nothing changes.
\* So the screening of a record changes at most one item of the two lists,
\* and a hit in the allow list leaves the block list as it is.
C15_MatchCountsOneItem ==
    [][ScreenStep =>
          LET a == FirstOfBoth(allowlist, call_number, call_name)
              b == FirstOfBoth(blocklist, call_number, call_name)
          IN  /\ OnlyCounted(allowlist, allowlist', a, timestamp')
              /\ (match' = "allow") <=> (a # 0)
              /\ a # 0 => blocklist' = blocklist
              /\ (a = 0 /\ b # 0) =>
                    /\ OnlyCounted(blocklist, blocklist', b, timestamp')
                    /\ match' = "block"
              /\ (a = 0 /\ b = 0) =>
                    \A i \in DOMAIN blocklist : blocklist'[i] = blocklist[i]]_vars

\* the number matched the second item of the block list and the name the
\* first: the second item is the one counted
C15_Witness ==
    /\ pc = "log" /\ match = "block"
    /\ Len(blocklist) = 2
    /\ blocklist[1].count = 0 /\ blocklist[2].count = 1
    /\ ReMatch(blocklist[1].regex, call_name)
    /\ ReMatch(blocklist[2].regex, call_number)

----------------------------------------------------------------------------
(* a NAME line before the date *)

\* C16: a NAME line read while no date is held is ignored: no record is
\* handed to screening and the four fields are left as they were.
C16_NameWithoutDateIgnored ==
    [][(/\ pc = "accum"
        /\ StartsWith(line, <<"N","A","M","E">>)
        /\ call_date = <<>>)
       => (pc' = "top" /\ UNCHANGED fieldVars)]_vars

----------------------------------------------------------------------------
(* the shape of the timestamp of a record *)

\* the text has the shape YYYY-MM-DD HH:MM
Canonical(ts) ==
    /\ Len(ts) = 16
    /\ \A i \in {1, 2, 3, 4, 6, 7, 9, 10, 12, 13, 15, 16} : IsDigit(ts[i])
    /\ ts[5] = "-" /\ ts[8] = "-" /\ ts[11] = " " /\ ts[14] = ":"

FourDigits(s) == Len(s) = 4 /\ \A i \in 1..4 : IsDigit(s[i])

\* C17: every timestamp built for a record has the shape YYYY-MM-DD HH:MM,
\* in the record being logged, in the items of the lists and in the call
\* log; every record handed to screening has a date and a time of four
\* digits.
C17_TimestampsCanonical ==
    /\ pc = "screen" => FourDigits(call_date) /\ FourDigits(call_time)
    /\ pc = "log" => Canonical(timestamp)
    /\ \A i \in DOMAIN allowlist : Canonical(allowlist[i].timestamp)
    /\ \A i \in DOMAIN blocklist : Canonical(blocklist[i].timestamp)

----------------------------------------------------------------------------
(* The calls on the telephone line.  The modem reports the first ring of a *)
(* call, then its Caller ID (DATE, TIME, NMBR and, if the caller has one,  *)
(* NAME), then a RING for each further ring for as long as the caller      *)
(* stays on the line.  main() sees the line only through read_line, so the *)
(* calls come and go while it waits there.                                 *)

\* the calls of one run
MaxCalls == 2

\* the lines the modem reports for the call, up to its second ring
CallLines(r) ==
    <<RING, DATE(<<"0","1","0","2">>), TIME(<<"1","0","3","0">>), NMBR(r.nmbr)>>
    \o (IF r.named THEN <<NAME(<<"B">>)>> ELSE <<>>)

\* the line the modem reports next for the call: its rings, after the
\* Caller ID
NextCallLine(r) ==
    IF r.at < Len(CallLines(r)) THEN CallLines(r)[r.at + 1] ELSE RING

\* a call comes in
NewCall ==
    /\ pc = "read"
    /\ ~ringing.on
    /\ ringing.call < MaxCalls
    /\ \E n \in {<<"1">>, <<"2">>}, named \in BOOLEAN :
          ringing' = [call |-> ringing.call + 1, on |-> TRUE, at |-> 0,
                      nmbr |-> n, named |-> named]
    /\ UNCHANGED <<pc, line, fieldVars, timestamp, match, reload_config,
                   listVars, blocklist_purge_time, new_contents, fileVars,
                   clock, sent, modem_lines, star_events, origin, starVars,
                   histVars>>

\* the caller hangs up
HangUp ==
    /\ pc = "read"
    /\ ringing.on
    /\ ringing' = [ringing EXCEPT !.on = FALSE]
    /\ UNCHANGED <<pc, line, fieldVars, timestamp, match, reload_config,
                   listVars, blocklist_purge_time, new_contents, fileVars,
                   clock, sent, modem_lines, star_events, origin, starVars,
                   histVars>>

\* line = modem.read_line(), with a call on the line
ReadCallLine ==
    /\ pc = "read"
    /\ nread < MaxLines
    /\ ringing.on
    /\ line' = NextCallLine(ringing)
    /\ ringing' = [ringing EXCEPT
                     !.at = IF @ < Len(CallLines(ringing)) THEN @ + 1 ELSE @]
    /\ origin' = [date |-> IF StartsWith(line', <<"D","A","T","E">>)
                           THEN ringing.call ELSE origin.date,
                  line |-> ringing.call]
    /\ \E c \in clock..Len(Instants) : clock' = c
    /\ nread' = nread + 1
    /\ purged' = NotPurged
    /\ owed' = Wait(owed)
    /\ pc' = "sighup"
    /\ UNCHANGED <<fieldVars, timestamp, match, reload_config, listVars,
                   blocklist_purge_time, new_contents, fileVars, sent,
                   modem_lines, star_events, starVars, fresh, seen, handed>>

NextCall ==
    \/ NewCall \/ HangUp \/ ReadCallLine
    \/ SIGHUP
    \/ PurgeCheck \/ PurgeRemoveBackup \/ PurgeRename \/ PurgeOpen \/ PurgeWrite
    \/ TestReload \/ ClearReload \/ ReloadAllow \/ ReloadBlock
    \/ Accumulate \/ Screen \/ LogCall

SpecCall == Init /\ [][NextCall]_vars

\* C18: when the screening of a record makes the modem terminate the call,
\* or listen for the star key, the line that completed the record came from
\* the call whose DATE line the record holds: the call ringing is the call
\* screened.
C18_ScreensTheCallRinging ==
    [][(ScreenStep /\ (Terminated(sent') \/ StarEngaged(sent')))
       => origin.line = origin.date]_vars

----------------------------------------------------------------------------
(* the list file after a purge *)

\* the patterns of the list the purge found that it has removed
Removed == {purged.list[k].regex : k \in DOMAIN purged.list}
           \ {blocklist[k].regex : k \in DOMAIN blocklist}

\* C19: after a purge no pattern that the purge removed from the list is on
\* a line of the list file that is not commented out, so that reading the
\* file again does not bring the pattern back.
C19_RemovedPatternGoneFromFile ==
    (pc = "read" /\ purged.active) =>
        /\ \A i \in DOMAIN block_dat.lines :
              ~StartsWith(block_dat.lines[i], <<"#">>)
                  => LineKey(block_dat.lines[i]) \notin Removed
        /\ \A key \in Removed :
              ~InList(read_list(block_dat, block_match, NowText(clock)).list, key)

----------------------------------------------------------------------------
(* the purge and a reload that is pending *)

\* C20: purge_list never scans the block list while a reload is pending:
\* when the purge is due at the head of the loop and the reload flag is set,
\* the lists are read again before the purge decides what to remove.
C20_NoPurgeWhileReloadPending ==
    [][(pc = "top" /\ purged'.active) => ~reload_config]_vars

====
